---------------------------- MODULE Spec2Model ----------------------------
(***************************************************************************)
(* Model of robosat_pink/tiles.py: the slippy-map tile helpers and the     *)
(* tile buffering function tile_image_buffer.                              *)
(*                                                                         *)
(* Python values are tagged records ([t |-> "None"], [t |-> "int", ...],   *)
(* [t |-> "str", ...], [t |-> "array", ...], [t |-> "raise", ...]) so that *)
(* the type of a value, which decides several outcomes of the code, is     *)
(* part of the model. A raised exception is the value Raise(exc); every    *)
(* operator propagates it the way the interpreter unwinds the call.        *)
(***************************************************************************)
EXTENDS Integers, Sequences, FiniteSets, TLC

VARIABLES tile, files, ts, call, result

vars == <<tile, files, ts, call, result>>

(***************************************************************************)
(* Bounds of the model.                                                    *)
(***************************************************************************)
MaxTS == 2        \* tiles are ts x ts pixels, ts in 1..MaxTS
Zoom == 2         \* zoom level of the tiles on disk
MaxBands == 4     \* a raster on disk holds 1..MaxBands bands

(* Number of channels of the output buffer: np.zeros((ts + oo, ts + oo, 3)) *)
Channels == 3

Min(a, b) == IF a < b THEN a ELSE b
Max(a, b) == IF a > b THEN a ELSE b

(***************************************************************************)
(* Python values.                                                          *)
(***************************************************************************)
None == [t |-> "None"]
Raise(exc) == [t |-> "raise", exc |-> exc]
PyInt(n) == [t |-> "int", v |-> n]
(* The decimal string of n, as it appears in a path component.             *)
PyStr(n) == [t |-> "str", v |-> n]
(* The str "<root>/<z>/<x>/<y>.<ext>".                                     *)
PathStr(root, z, x, y) == [t |-> "path", root |-> root, z |-> z, x |-> x, y |-> y]
(* mercantile.Tile(x, y, z): a namedtuple keeping the fields as passed.    *)
Tile(x, y, z) == [x |-> x, y |-> y, z |-> z]
PyTuple(a, b) == [t |-> "tuple", fst |-> a, snd |-> b]
IsRaise(v) == v.t = "raise"
IsNone(v) == v.t = "None"
IsArray(v) == v.t = "array"

(***************************************************************************)
(* numpy arrays of shape (h, w, c); px maps <<row, col, channel>>, counted *)
(* from 0, to the uint8 sample.                                            *)
(***************************************************************************)
Cells(h, w, c) == (0 .. h - 1) \X (0 .. w - 1) \X (0 .. c - 1)
Array(h, w, c, px) == [t |-> "array", h |-> h, w |-> w, c |-> c, px |-> px]
(* np.zeros((h, w, c)).astype(np.uint8)                                    *)
zeros(h, w, c) == Array(h, w, c, [i \in Cells(h, w, c) |-> 0])

(* A slice bound of a[lo:hi] on an axis of length n: negative bounds count *)
(* from the end, and every bound is clamped to 0..n.                       *)
SliceBound(i, n) == IF i < 0 THEN Max(i + n, 0) ELSE Min(i, n)
SliceLen(lo, hi, n) == Max(SliceBound(hi, n) - SliceBound(lo, n), 0)

(* a[r0:r1, c0:c1, :]                                                      *)
slice(a, r0, r1, c0, c1) ==
    LET rlo == SliceBound(r0, a.h)
        clo == SliceBound(c0, a.w)
        h == SliceLen(r0, r1, a.h)
        w == SliceLen(c0, c1, a.w)
    IN  Array(h, w, a.c,
              [i \in Cells(h, w, a.c) |-> a.px[<<rlo + i[1], clo + i[2], i[3]>>]])

(* numpy broadcasting of a value axis of length v onto a target axis of    *)
(* length d.                                                               *)
Broadcasts(v, d) == v = d \/ v = 1

(* img[r0:r1, c0:c1, :] = val: val is broadcast to the shape of the target *)
(* region, or ValueError is raised when the shapes do not broadcast.       *)
setslice(img, r0, r1, c0, c1, val) ==
    LET rlo == SliceBound(r0, img.h)
        clo == SliceBound(c0, img.w)
        dh == SliceLen(r0, r1, img.h)
        dw == SliceLen(c0, c1, img.w)
        src(i) == <<IF val.h = 1 THEN 0 ELSE i[1] - rlo,
                    IF val.w = 1 THEN 0 ELSE i[2] - clo,
                    IF val.c = 1 THEN 0 ELSE i[3]>>
        inside(i) == /\ rlo <= i[1] /\ i[1] < rlo + dh
                     /\ clo <= i[2] /\ i[2] < clo + dw
    IN  IF Broadcasts(val.h, dh) /\ Broadcasts(val.w, dw) /\ Broadcasts(val.c, img.c)
        THEN Array(img.h, img.w, img.c,
                   [i \in Cells(img.h, img.w, img.c) |->
                        IF inside(i) THEN val.px[src(i)] ELSE img.px[i]])
        ELSE Raise("ValueError")

(***************************************************************************)
(* The 3x3 neighbourhood: offsets <<dx, dy>>, in the order lines 132-140   *)
(* resolve them (upper, center, bottom) x (left, center, right).           *)
(***************************************************************************)
Pos == {-1, 0, 1} \X {-1, 0, 1}
Order == << <<-1, -1>>, <<0, -1>>, <<1, -1>>,
            <<-1, 0>>,  <<0, 0>>,  <<1, 0>>,
            <<-1, 1>>,  <<0, 1>>,  <<1, 1>> >>
Center == <<0, 0>>

(***************************************************************************)
(* The nine assignments of lines 150-158, in program order, for overlap o  *)
(* and tile size n. sr, sc: the row and column slice taken of the source   *)
(* tile; dr, dc: the row and column slice of img assigned to; zh, zw: the  *)
(* shape of the zeros assigned when the source is None. Line 154 assigns   *)
(* cc whole, without slicing it.                                           *)
(***************************************************************************)
Step(p, sr, sc, dr, dc, zh, zw, whole) ==
    [p |-> p, sr |-> sr, sc |-> sc, dr |-> dr, dc |-> dc,
     zh |-> zh, zw |-> zw, whole |-> whole]

img_assignments(o, n) ==
    LET oo == o * 2
    IN << Step(<<-1, -1>>, <<-o, n>>, <<-o, n>>, <<0, o>>,      <<0, o>>,      o, o, FALSE),
          Step(<<0, -1>>,  <<-o, n>>, <<0, n>>,  <<0, o>>,      <<o, n+o>>,    o, n, FALSE),
          Step(<<1, -1>>,  <<-o, n>>, <<0, o>>,  <<0, o>>,      <<n+o, n+oo>>, o, o, FALSE),
          Step(<<-1, 0>>,  <<0, n>>,  <<-o, n>>, <<o, n+o>>,    <<0, o>>,      n, o, FALSE),
          Step(<<0, 0>>,   <<0, n>>,  <<0, n>>,  <<o, n+o>>,    <<o, n+o>>,    n, n, TRUE),
          Step(<<1, 0>>,   <<0, n>>,  <<0, o>>,  <<o, n+o>>,    <<n+o, n+oo>>, n, o, FALSE),
          Step(<<-1, 1>>,  <<0, o>>,  <<-o, n>>, <<n+o, n+oo>>, <<0, o>>,      o, o, FALSE),
          Step(<<0, 1>>,   <<0, o>>,  <<0, n>>,  <<n+o, n+oo>>, <<o, n+o>>,    o, n, FALSE),
          Step(<<1, 1>>,   <<0, o>>,  <<0, o>>,  <<n+o, n+oo>>, <<n+o, n+oo>>, o, o, FALSE) >>

(* The right-hand side of one assignment: the slice of the source tile, or *)
(* zeros when the source is None.                                          *)
img_source(st, v) ==
    IF IsNone(v) THEN zeros(st.zh, st.zw, Channels)
    ELSE IF st.whole THEN v
    ELSE slice(v, st.sr[1], st.sr[2], st.sc[1], st.sc[2])

(* Assignments k..9 applied to img in order; the first ValueError ends it. *)
RECURSIVE img_fill(_, _, _, _)
img_fill(img, nb, steps, k) ==
    IF IsRaise(img) \/ k > Len(steps) THEN img
    ELSE LET st == steps[k]
         IN  img_fill(setslice(img, st.dr[1], st.dr[2], st.dc[1], st.dc[2],
                               img_source(st, nb[st.p])),
                      nb, steps, k + 1)

(***************************************************************************)
(* Lines 142-161 of tile_image_buffer: nb maps each offset to the value    *)
(* lines 132-140 bound for it (an array or None).                          *)
(***************************************************************************)
composite(nb, overlap) ==
    LET cc == nb[Center]
    IN  IF IsNone(cc) THEN Raise("AttributeError")        \* cc.shape of None
        ELSE IF ~(0 <= overlap /\ overlap <= cc.w) THEN Raise("AssertionError")
        ELSE LET n == cc.w
                 oo == overlap * 2
             IN  img_fill(zeros(n + oo, n + oo, Channels), nb,
                          img_assignments(overlap, n), 1)

(***************************************************************************)
(* The slippy-map directory on disk. tile is the tile the caller buffers;  *)
(* files maps each offset of its 3x3 neighbourhood to the state of the     *)
(* file "<root>/<z>/<x>/<y>.<ext>" there; no other file matters to the     *)
(* code. A file is missing, cannot be opened ("corrupt"), opens but fails  *)
(* when a band is read ("truncated"), or is a raster of ts x ts pixels     *)
(* with the given number of bands ("ok").                                  *)
(***************************************************************************)
DiskRoot == "tiles"
Missing == [st |-> "missing", bands |-> 0]
Corrupt == [st |-> "corrupt", bands |-> 0]
Truncated == [st |-> "truncated", bands |-> 0]
Raster(b) == [st |-> "ok", bands |-> b]
FileStates == {Missing, Corrupt, Truncated} \cup {Raster(b) : b \in 1 .. MaxBands}

(* Zoom z has a 2^z x 2^z grid of tiles.                                   *)
InPyramid(z, x, y) == /\ 0 <= x /\ x < 2 ^ z
                      /\ 0 <= y /\ y < 2 ^ z

FileAt(root, z, x, y) ==
    IF /\ root = DiskRoot
       /\ z = tile.z
       /\ <<x - tile.x, y - tile.y>> \in Pos
    THEN files[<<x - tile.x, y - tile.y>>]
    ELSE Missing

(* The sample of band ch at row r, column c of the raster of tile (x, y),  *)
(* a uint8: up to the wrap at 256, distinct rasters, rows, columns and     *)
(* bands hold distinct, non-zero samples.                                  *)
Sample(x, y, r, c, ch) ==
    (1 + ch + MaxBands * (c + ts * (r + ts * ((x % 3) + 3 * (y % 3))))) % 256

(* A variant of tile_from_slippy_map that formats the coordinates with     *)
(* str() and returns the path alone.                                       *)
tile_from_slippy_map_path(root, x, y, z) ==
    IF FileAt(root, z.v, x.v, y.v) = Missing THEN None
    ELSE PathStr(root, z.v, x.v, y.v)

(***************************************************************************)
(* tile_from_slippy_map(root, x, y, z), lines 50-57. The arguments of      *)
(* os.path.join are evaluated first: y + ".*" raises TypeError when y is   *)
(* an int, and os.path.join raises TypeError on a component that is not a  *)
(* str. glob then lists the files "<root>/<z>/<x>/<y>.*"; the result is    *)
(* None or the tuple (Tile(x, y, z), path[0]).                             *)
(***************************************************************************)
tile_from_slippy_map(root, x, y, z) ==
    IF y.t # "str" THEN Raise("TypeError")
    ELSE IF z.t # "str" \/ x.t # "str" THEN Raise("TypeError")
    ELSE IF FileAt(root, z.v, x.v, y.v) = Missing THEN None
    ELSE PyTuple(Tile(x, y, z), PathStr(root, z.v, x.v, y.v))

(***************************************************************************)
(* tile_image_from_file(path), lines 73-87, bands = None. Only the open is *)
(* inside the try: expanduser of a value that is not a str, or a file      *)
(* that is missing or cannot be opened, gives None; a failing              *)
(* raster.read(i) at line 83 propagates. The image has one channel per     *)
(* band of the raster.                                                     *)
(***************************************************************************)
tile_image_from_file(path) ==
    IF path.t # "path" THEN None
    ELSE LET f == FileAt(path.root, path.z, path.x, path.y)
         IN  IF f.st \in {"missing", "corrupt"} THEN None
             ELSE IF f.st = "truncated" THEN Raise("RasterioIOError")
             ELSE Array(ts, ts, f.bands,
                        [i \in Cells(ts, ts, f.bands) |->
                             Sample(path.x, path.y, i[1], i[2], i[3])])

(* A variant of tile_image_adjacent that answers every failure of the      *)
(* lookup or of the decoding with a blank tile.                            *)
tile_image_adjacent_blank(root, t, dx, dy) ==
    LET path == tile_from_slippy_map(root, PyInt(t.x + dx), PyInt(t.y + dy), PyInt(t.z))
        image == IF IsRaise(path) \/ IsNone(path) THEN None
                 ELSE tile_image_from_file(path)
    IN  IF IsArray(image) THEN image ELSE zeros(ts, ts, Channels)

(***************************************************************************)
(* tile_image_adjacent(root, tile, dx, dy), lines 125-127: the lookup is   *)
(* made with int arguments, and its result (None or a tuple) is what is    *)
(* handed to tile_image_from_file.                                         *)
(***************************************************************************)
tile_image_adjacent(root, t, dx, dy) ==
    LET path == tile_from_slippy_map(root, PyInt(t.x + dx), PyInt(t.y + dy), PyInt(t.z))
    IN  IF IsRaise(path) THEN path
        ELSE IF IsNone(path) THEN None
        ELSE tile_image_from_file(path)

(* root = re.sub("^(.+)(/[0-9]+/[0-9]+/[0-9]+.+)$", r"\1", path), line 129 *)
Root(path) == path.root

(***************************************************************************)
(* tile_image_buffer(tile, path, overlap), lines 122-161: the nine         *)
(* neighbours are resolved in the order of lines 132-140, the first        *)
(* exception ends the call, and lines 142-161 build the buffer.            *)
(***************************************************************************)
tile_image_buffer(t, path, overlap) ==
    LET root == Root(path)
        nb == [p \in Pos |-> tile_image_adjacent(root, t, p[1], p[2])]
        raised == {k \in 1 .. Len(Order) : IsRaise(nb[Order[k]])}
    IN  IF raised # {}
        THEN nb[Order[CHOOSE k \in raised : \A j \in raised : k <= j]]
        ELSE composite(nb, overlap)

(***************************************************************************)
(* The state: the directory on disk (tile, files, ts), the call made and   *)
(* its result (the value returned, or Raise(exc)). The functions keep no   *)
(* state between calls and never write to the directory, so a behaviour is *)
(* one call on one directory.                                              *)
(***************************************************************************)
Centers == {Tile(0, 0, Zoom), Tile(1, 1, Zoom), Tile(2 ^ Zoom - 1, 2 ^ Zoom - 1, Zoom)}
Overlaps == -1 .. MaxTS + 1
Near(t) == {p \in Pos : InPyramid(t.z, t.x + p[1], t.y + p[2])}

(* The directories considered: any set of the in-pyramid neighbours holds  *)
(* a 3-band raster, and at most one file is in another state.              *)
Disks(t) ==
    {[p \in Pos |-> IF p = q THEN f
                    ELSE IF p \in S THEN Raster(Channels) ELSE Missing] :
        S \in SUBSET Near(t), q \in Near(t), f \in FileStates}

NoCall == [op |-> "none", o |-> 0, p |-> Center, typ |-> "none"]
TilePath(t, p) == PathStr(DiskRoot, t.z, t.x + p[1], t.y + p[2])

Init ==
    /\ tile \in Centers
    /\ ts \in 1 .. MaxTS
    /\ files \in Disks(tile)
    /\ call = NoCall
    /\ result = None

(* A caller buffers the tile: tile_image_buffer(tile, path, overlap).      *)
TileImageBuffer ==
    \E o \in Overlaps :
        /\ call = NoCall
        /\ call' = [op |-> "tile_image_buffer", o |-> o, p |-> Center, typ |-> "int"]
        /\ result' = tile_image_buffer(tile, TilePath(tile, Center), o)
        /\ UNCHANGED <<tile, files, ts>>

(* A caller looks a tile up: tile_from_slippy_map(root, x, y, z), with the *)
(* coordinates given as strings or as ints.                                *)
PyArg(typ, n) == IF typ = "str" THEN PyStr(n) ELSE PyInt(n)

TileFromSlippyMap ==
    \E p \in Pos, typ \in {"str", "int"} :
        /\ call = NoCall
        /\ call' = [op |-> "tile_from_slippy_map", o |-> 0, p |-> p, typ |-> typ]
        /\ result' = tile_from_slippy_map(DiskRoot, PyArg(typ, tile.x + p[1]),
                                          PyArg(typ, tile.y + p[2]), PyArg(typ, tile.z))
        /\ UNCHANGED <<tile, files, ts>>

(* A caller decodes a file: tile_image_from_file(path), given the path or  *)
(* the tuple tile_from_slippy_map returns.                                 *)
TileImageFromFile ==
    \E p \in Pos, typ \in {"path", "tuple"} :
        /\ call = NoCall
        /\ call' = [op |-> "tile_image_from_file", o |-> 0, p |-> p, typ |-> typ]
        /\ result' = tile_image_from_file(
                         IF typ = "path" THEN TilePath(tile, p)
                         ELSE PyTuple(Tile(PyStr(tile.x + p[1]), PyStr(tile.y + p[2]),
                                           PyStr(tile.z)),
                                      TilePath(tile, p)))
        /\ UNCHANGED <<tile, files, ts>>

Next == TileImageBuffer \/ TileFromSlippyMap \/ TileImageFromFile

Spec == Init /\ [][Next]_vars

(***************************************************************************)
(* The compositing stage on its own: lines 142-161 applied to the nine     *)
(* images tile_image_from_file decodes from the files of the               *)
(* neighbourhood (an array, or None for a file that is missing or cannot   *)
(* be opened).                                                             *)
(***************************************************************************)
Decoded == [p \in Pos |-> tile_image_from_file(TilePath(tile, p))]

Composite ==
    \E o \in Overlaps :
        /\ call = NoCall
        /\ \A p \in Pos : ~IsRaise(Decoded[p])
        /\ call' = [op |-> "composite", o |-> o, p |-> Center, typ |-> "array"]
        /\ result' = composite(Decoded, o)
        /\ UNCHANGED <<tile, files, ts>>

NextCompose == Composite

SpecCompose == Init /\ [][NextCompose]_vars

(***************************************************************************)
(* Vocabulary of the properties. The slice table of the buffer, in closed  *)
(* form: along one axis, the neighbour at offset d contributes the o       *)
(* samples next to the center tile (d = -1: its last o, d = +1: its first  *)
(* o, d = 0: all ts), and they land at the start (d = -1), the middle      *)
(* (d = 0) or the end (d = +1) of the buffer. Rows follow dy, columns dx.  *)
(***************************************************************************)
SrcLo(d, o) == IF d = -1 THEN ts - o ELSE 0
RectLen(d, o) == IF d = 0 THEN ts ELSE o
DstLo(d, o) == IF d = -1 THEN 0 ELSE IF d = 0 THEN o ELSE ts + o
RectCells(p, o) ==
    (0 .. RectLen(p[2], o) - 1) \X (0 .. RectLen(p[1], o) - 1) \X (0 .. Channels - 1)

Present(p) == files[p].st = "ok"
Absent(p) == files[p].st \in {"missing", "corrupt"}
Neighbors == Pos \ {Center}
ValidOverlap(o) == 0 <= o /\ o <= ts
(* Every file that can be read is a 3-band raster and none fails on read.  *)
RgbDisk == \A p \in Pos : Present(p) => files[p].bands = Channels
NoneTruncated == \A p \in Pos : files[p].st # "truncated"

HasShape(img, o) ==
    IsArray(img) /\ img.h = ts + 2 * o /\ img.w = ts + 2 * o /\ img.c = Channels

(* The rectangle of offset p holds the table's slice of the tile at p.     *)
RectIsStrip(img, p, o) ==
    /\ HasShape(img, o)
    /\ \A i \in RectCells(p, o) :
          img.px[<<DstLo(p[2], o) + i[1], DstLo(p[1], o) + i[2], i[3]>>]
              = Sample(tile.x + p[1], tile.y + p[2],
                       SrcLo(p[2], o) + i[1], SrcLo(p[1], o) + i[2], i[3])

RectIsZero(img, p, o) ==
    /\ HasShape(img, o)
    /\ \A i \in RectCells(p, o) :
          img.px[<<DstLo(p[2], o) + i[1], DstLo(p[1], o) + i[2], i[3]>>] = 0

Did(op) == call.op = op
Buffered == Did("tile_image_buffer")

(***************************************************************************)
(* Every call of tile_image_buffer ends in the TypeError of line 53: the   *)
(* first lookup, tile_image_adjacent(root, tile, -1, -1), passes ints to   *)
(* tile_from_slippy_map, which computes y + ".*".                          *)
(***************************************************************************)
BufferAlwaysRaises == Buffered => result = Raise("TypeError")

(* The usual call: a valid overlap on a directory of readable 3-band tiles *)
(* with the center tile present.                                           *)
UsualCall ==
    Buffered /\ ValidOverlap(call.o) /\ RgbDisk /\ NoneTruncated /\ Present(Center)

(* C1: for every valid overlap and every neighbour that is present, the    *)
(* neighbour's rectangle of the output equals, cell for cell, the strip of *)
(* the neighbour next to the center tile that the slice table gives.       *)
C1_NeighborStrips ==
    UsualCall => \A p \in Neighbors : Present(p) => RectIsStrip(result, p, call.o)

(* C2: the rectangle of every absent neighbour is all zero, and every      *)
(* other rectangle holds what its own tile gives it, whichever other       *)
(* neighbours are present or absent.                                       *)
C2_AbsentRectsZero ==
    UsualCall =>
        /\ RectIsStrip(result, Center, call.o)
        /\ \A p \in Neighbors : IF Absent(p) THEN RectIsZero(result, p, call.o)
                                ELSE RectIsStrip(result, p, call.o)

(* C3: with all nine tiles present and a center tile of 3 or more          *)
(* channels, the region [o:ts+o, o:ts+o] of the output equals the first 3  *)
(* channels of the center tile.                                            *)
C3_CenterRegion ==
    (/\ Buffered /\ ValidOverlap(call.o)
     /\ \A p \in Pos : Present(p)
     /\ \A p \in Neighbors : files[p].bands = Channels
     /\ files[Center].bands >= Channels)
        => RectIsStrip(result, Center, call.o)

(* C4: for every valid overlap and every pattern of present and absent     *)
(* neighbours, the output has shape (ts + 2o, ts + 2o, 3).                 *)
C4_OutputShape == UsualCall => HasShape(result, call.o)

(* C5: with overlap 0 the output is the center tile's first 3 channels,    *)
(* shape (ts, ts, 3), whatever neighbours are present.                     *)
C5_ZeroOverlapIdentity ==
    (/\ Buffered /\ call.o = 0 /\ NoneTruncated
     /\ Present(Center) /\ files[Center].bands >= Channels
     /\ \A p \in Neighbors : Present(p) => files[p].bands = Channels)
        => /\ result.t = "array" /\ result.h = ts /\ result.w = ts
           /\ RectIsStrip(result, Center, 0)

(* C6: an overlap is accepted, and an output produced, exactly when        *)
(* 0 <= overlap <= ts; any other overlap ends in the assertion failure.    *)
C6_OverlapAccepted ==
    (Buffered /\ RgbDisk /\ NoneTruncated /\ Present(Center))
        => IF ValidOverlap(call.o) THEN IsArray(result)
           ELSE result = Raise("AssertionError")

(* C7: when the center tile is absent, tile_image_buffer ends in an error  *)
(* and returns no output.                                                  *)
C7_MissingCenterFatal == (Buffered /\ Absent(Center)) => IsRaise(result)

C7_Witness ==
    /\ Buffered /\ files[Center] = Missing /\ ValidOverlap(call.o)
    /\ \E p \in Neighbors : Present(p)
    /\ IsRaise(result)

C9_NeighborNeverFails ==
    /\ (/\ Buffered /\ ValidOverlap(call.o) /\ RgbDisk /\ Present(Center))
          => \A p \in Neighbors : ~Present(p) => RectIsZero(result, p, call.o)
    /\ (Did("tile_image_from_file") /\ call.typ = "path" /\ ~Present(call.p))
          => IsNone(result)

(* C10: for every offset, tile_image_adjacent looks up the address         *)
(* (x + dx, y + dy, z) and, when a readable tile is stored there, returns  *)
(* that tile's pixel array.                                                *)
C10_NeighborLookup ==
    Buffered => \A p \in Pos :
        Present(p) => tile_image_adjacent(DiskRoot, tile, p[1], p[2]) = Decoded[p]

(***************************************************************************)
(* Lines 142-161 on their own (SpecCompose).                               *)
(***************************************************************************)
Staged == Did("composite")
UpperOrLeft == {<<-1, -1>>, <<0, -1>>, <<1, -1>>, <<-1, 0>>, <<-1, 1>>}

(* With 1 <= o <= ts and 3-band tiles the nine rectangles follow the table. *)
Stage_Rects ==
    (Staged /\ RgbDisk /\ Present(Center) /\ 1 <= call.o /\ call.o <= ts)
        => \A p \in Pos : IF Present(p) THEN RectIsStrip(result, p, call.o)
                          ELSE RectIsZero(result, p, call.o)

(* The assertion of line 145 rejects exactly the overlaps outside 0..ts.   *)
Stage_OverlapAsserted ==
    (Staged /\ Present(Center))
        => (result = Raise("AssertionError") <=> ~ValidOverlap(call.o))

(* cc = None fails at cc.shape, line 144.                                  *)
Stage_MissingCenter == (Staged /\ Absent(Center)) => result = Raise("AttributeError")

(* With o = 0 the slice -o:ts is the whole axis: for ts >= 2 a present     *)
(* upper or left neighbour does not fit its empty rectangle.               *)
Stage_ZeroOverlapRaises ==
    (/\ Staged /\ call.o = 0 /\ ts >= 2 /\ Present(Center)
     /\ \E p \in UpperOrLeft : Present(p))
        => result = Raise("ValueError")

(* A 1-band tile is broadcast over the 3 channels without an error.        *)
Stage_OneBandBroadcast ==
    (/\ Staged /\ 1 <= call.o /\ call.o <= ts /\ Present(Center)
     /\ \A p \in Pos : Present(p) => files[p].bands \in {1, Channels})
        => HasShape(result, call.o)

(* A tile of 2 bands, or of more than 3, does not fit the 3 channels.      *)
Stage_OtherBandsRaise ==
    (/\ Staged /\ 1 <= call.o /\ call.o <= ts /\ Present(Center)
     /\ \E p \in Pos : Present(p) /\ files[p].bands \notin {1, Channels})
        => result = Raise("ValueError")

=============================================================================
